---- MODULE Spec2Model ----
(***************************************************************************)
(* A model of scripts/build_changelog.py: the changelog generator that     *)
(* walks a repository and its submodules, buckets commits by conventional- *)
(* commit type, resolves committer emails to usernames through a cache     *)
(* file and a remote search, and writes the release notes.                 *)
(*                                                                         *)
(* Text is modelled as sequences of tokens: a token is a piece of text the *)
(* code never looks into, or a piece of punctuation it looks for.  A       *)
(* Python value that may be None is the empty sequence None or the one-    *)
(* element sequence Some(v).                                               *)
(***************************************************************************)
EXTENDS Naturals, Sequences, FiniteSets, TLC

VARIABLES
    msg,            \* Commit.msg of the commit being classified
    parsed,         \* None, or Some of the value parse_type returned for msg
    s,              \* remove_duplicates: the list of lines passed in
    minlen,         \* remove_duplicates: its minlen argument
    only_sections,  \* remove_duplicates: its only_sections argument
    dpc,            \* remove_duplicates: "idle", "entry", "loop" or "done"
    i,              \* remove_duplicates: the loop index (from 1)
    out,            \* remove_duplicates: the list being built / returned
    longest,        \* remove_duplicates: the run of repeated lines collected
    removals,       \* remove_duplicates: the runs reported by print() as removed
    email,          \* _resolve_email: its argument
    rpc,            \* _resolve_email: "idle", "entry", "while", "try", "after",
                    \*     "returned" or "raised"
    resp,           \* _resolve_email: None, or Some of the JSON of the response
    backoff,        \* _resolve_email: the attempt counter
    ret,            \* _resolve_email: the value returned
    nreq,           \* the requests the call has sent (counted up to MaxRequests)
    all403,         \* every request of the call so far was answered with HTTP 403
    last,           \* how the last request of the call ended: "", "200", "403",
                    \*     "404", "500" or "conn" (no HTTP response at all)
    gitlog,         \* the lines `git log` prints in each repository path
    submodules,     \* the headers `git submodule summary` prints in each path
    filter_types,   \* build: its filter_types argument
    bpc,            \* build: "idle", "summary", "summarized", "contributors",
                    \*     "written" or "aborted"
    stack,          \* the frames of the summary_repo calls in progress
    output_changelog,   \* build: what summary_repo returned
    contributor_emails, \* the module's global set of committer emails
    cachefile,      \* scripts/changelog_contributors.csv: None, or Some of its lines
    usernames,      \* get_all_contributors: the dict from username to emails
    gpc,            \* get_all_contributors: "idle", "read", "loop", "call",
                    \*     "write" or "returned"
    unresolved,     \* get_all_contributors: the emails the loop has yet to visit
    contributors,   \* get_all_contributors: the set of usernames returned
    nruns           \* the runs of the script started so far

parseVars == <<msg, parsed>>
dedupVars == <<s, minlen, only_sections, dpc, i, out, longest, removals>>

resolveVars == <<email, rpc, resp, backoff, ret, nreq, all403, last>>

inputVars == <<gitlog, submodules, filter_types>>
summaryVars == <<stack, output_changelog, contributor_emails>>
contribVars == <<cachefile, usernames, gpc, unresolved, contributors, nruns>>

vars == <<parseVars, dedupVars, resolveVars, inputVars, bpc, summaryVars, contribVars>>

\* what the steps of each function leave alone
notParse == <<dedupVars, resolveVars, inputVars, bpc, summaryVars, contribVars>>
notDedup == <<parseVars, resolveVars, inputVars, bpc, summaryVars, contribVars>>
notResolve == <<parseVars, dedupVars, inputVars, bpc, summaryVars, contribVars>>
notSummary == <<parseVars, dedupVars, resolveVars, inputVars, contribVars>>

None == <<>>
Some(v) == <<v>>

Min(a, b) == IF a < b THEN a ELSE b

RECURSIVE SeqsUpTo(_, _)
\* every sequence over S of length at most n
SeqsUpTo(S, n) ==
    IF n = 0 THEN {<<>>}
    ELSE LET shorter == SeqsUpTo(S, n - 1)
         IN  shorter \cup {Append(q, x) : q \in {r \in shorter : Len(r) = n - 1}, x \in S}

Range(q) == {q[k] : k \in 1..Len(q)}

(***************************************************************************)
(* Commit.parse_type                                                       *)
(***************************************************************************)

\* tokens made of \w characters only
WordTokens == {"fix", "feat", "build", "ci", "chore", "x"}

\* the types parse_type lets through
AllowedTypes == {"build", "ci", "fix", "feat"}

\* the length of the longest prefix of m made of word tokens: what (\w+) takes
RECURSIVE WordRun(_)
WordRun(m) ==
    IF m # <<>> /\ Head(m) \in WordTokens THEN 1 + WordRun(Tail(m)) ELSE 0

RECURSIVE Join(_)
Join(toks) == IF toks = <<>> THEN "" ELSE Head(toks) \o Join(Tail(toks))

\* [!]?: matched at position p of m
BangColonAt(m, p) ==
    \/ p <= Len(m) /\ m[p] = ":"
    \/ p + 1 <= Len(m) /\ m[p] = "!" /\ m[p + 1] = ":"

\* the positions j of a ")" that can close (\((.+)\)) opened at position p:
\* .+ takes at least one token, and [!]?: has to follow the ")"
ScopeEnds(m, p) ==
    {j \in (p + 2)..Len(m) : m[j] = ")" /\ BangColonAt(m, j + 1)}

SetMax(S) == CHOOSE j \in S : \A k \in S : k <= j
SetMin(S) == CHOOSE j \in S : \A k \in S : j <= k

\* .+ is greedy: of the ")" that let the rest match it takes the last
ScopeEnd(m, p) == SetMax(ScopeEnds(m, p))

\* re.search(r"^(\w+)(\((.+)\))?[!]?:", msg): None, or Some of groups 1 and 3
RegexMatch(m) ==
    LET n == WordRun(m)
    IN  IF n = 0 THEN None
        ELSE IF n + 1 <= Len(m) /\ m[n + 1] = "("
        THEN IF ScopeEnds(m, n + 1) = {} THEN None
             ELSE Some([type |-> Join(SubSeq(m, 1, n)),
                        subtype |-> Some(SubSeq(m, n + 2, ScopeEnd(m, n + 1) - 1))])
        ELSE IF BangColonAt(m, n + 1)
        THEN Some([type |-> Join(SubSeq(m, 1, n)), subtype |-> None])
        ELSE None

parse_type(m) ==
    LET match == RegexMatch(m)
    IN  IF match # None /\ match[1].type \in AllowedTypes THEN match ELSE None

\* Commit.type
CommitType(m) ==
    IF parse_type(m) = None THEN None ELSE Some(parse_type(m)[1].type)

(***************************************************************************)
(* Classification of one message                                           *)
(***************************************************************************)

MaxMsgLen == 7

ParseTokens == {"fix", "chore", "(", ")", ":", "!"}

ParseIdle == msg = <<>> /\ parsed = None

\* the call commit.parse_type() on a commit whose msg is msg
Classify ==
    /\ parsed = None
    /\ parsed' = Some(parse_type(msg))
    /\ UNCHANGED <<msg, notParse>>

(***************************************************************************)
(* remove_duplicates                                                       *)
(***************************************************************************)

MaxLines == 5
MaxMinlen == 3

\* a line is a sequence of tokens; a section header starts with the token "#"
DedupLines == {<<"#", "a">>, <<"x">>, <<"y">>}

startswith(line, tok) == line # <<>> /\ Head(line) = tok

DedupIdle ==
    /\ s = <<>> /\ minlen = 0 /\ only_sections = FALSE /\ dpc = "idle"
    /\ i = 0 /\ out = <<>> /\ longest = <<>> /\ removals = <<>>

\* lines 235-238: the early return, or the start of the loop
DedupEntry ==
    /\ dpc = "entry"
    /\ IF Len(s) < minlen
       THEN out' = s /\ dpc' = "done" /\ UNCHANGED i
       ELSE out' = <<>> /\ dpc' = "loop" /\ i' = 1
    /\ longest' = <<>>
    /\ UNCHANGED <<s, minlen, only_sections, removals, notDedup>>

\* lines 240-249: s[i] matches no line of out
NoMatchBranch ==
    /\ IF Len(longest) < minlen
       THEN out' = (out \o longest) \o <<s[i]>> /\ UNCHANGED removals
       ELSE out' = Append(out, s[i]) /\ removals' = Append(removals, longest)
    /\ longest' = <<>>

\* lines 250-259: s[i] matches a line of out
MatchBranch ==
    /\ IF only_sections
       THEN IF longest = <<>> /\ startswith(s[i], "#")
            THEN longest' = Append(longest, s[i]) /\ UNCHANGED out
            ELSE out' = Append(out, s[i]) /\ UNCHANGED longest
       ELSE longest' = Append(longest, s[i]) /\ UNCHANGED out
    /\ UNCHANGED removals

\* one iteration of the loop of line 239
DedupStep ==
    /\ dpc = "loop"
    /\ i <= Len(s)
    /\ IF i = 1 \/ s[i] \notin Range(out) THEN NoMatchBranch ELSE MatchBranch
    /\ i' = i + 1
    /\ UNCHANGED <<s, minlen, only_sections, dpc, notDedup>>

\* line 261: return out
DedupReturn ==
    /\ dpc = "loop"
    /\ i > Len(s)
    /\ dpc' = "done"
    /\ UNCHANGED <<s, minlen, only_sections, i, out, longest, removals, notDedup>>

(***************************************************************************)
(* _resolve_email                                                          *)
(***************************************************************************)

max_backoff == 2

\* the requests of one call that are counted
MaxRequests == 3

NoReplyDomain == "users.noreply.github.com"

\* the first index of tok in q, or 0
IndexOf(q, tok) ==
    IF tok \in Range(q) THEN SetMin({k \in 1..Len(q) : q[k] = tok}) ELSE 0

\* q.split(tok)[0]
SplitFirst(q, tok) ==
    IF IndexOf(q, tok) = 0 THEN q ELSE SubSeq(q, 1, IndexOf(q, tok) - 1)

\* q.split(tok)[1], for a q that holds tok
SplitSecond(q, tok) ==
    SplitFirst(SubSeq(q, IndexOf(q, tok) + 1, Len(q)), tok)

\* lines 339-341: the username a no-reply address carries
NoReplyUsername(e) ==
    LET username == SplitFirst(e, "@")
    IN  Join(IF "+" \in Range(username) THEN SplitSecond(username, "+") ELSE username)

\* the JSON bodies the search endpoint answers with
SearchResults ==
    { [total_count |-> 0, items |-> <<>>],
      [total_count |-> 1, items |-> <<"alice">>],
      [total_count |-> 2, items |-> <<"bob", "alice">>] }

\* HTTP error statuses other than the rate limit's 403
OtherErrorStatuses == {"404", "500"}

ResolveIdle ==
    /\ email = <<>> /\ rpc = "idle" /\ resp = None /\ backoff = 0 /\ ret = None
    /\ nreq = 0 /\ all403 = TRUE /\ last = ""

Sent == nreq' = Min(nreq + 1, MaxRequests)

\* the give-up test, one attempt late
GiveUp_OneLate(b) == b > max_backoff

\* line 350: the retry loop gives up
GiveUp(b) == b >= max_backoff

\* lines 338-348: the no-reply branch returns, the other enters the loop
ResolveEntry ==
    /\ rpc = "entry"
    /\ IF NoReplyDomain \in Range(email)
       THEN rpc' = "returned" /\ ret' = Some(NoReplyUsername(email))
       ELSE rpc' = "while" /\ ret' = None
    /\ resp' = None /\ backoff' = 0
    /\ UNCHANGED <<email, nreq, all403, last, notResolve>>

\* lines 349-352: the loop condition and the give-up test
WhileTest ==
    /\ rpc = "while"
    /\ rpc' = IF resp # None \/ GiveUp(backoff) THEN "after" ELSE "try"
    /\ UNCHANGED <<email, resp, backoff, ret, nreq, all403, last, notResolve>>

\* lines 355-360, 373: the request succeeds
RequestOk ==
    /\ rpc = "try"
    /\ \E data \in SearchResults : resp' = Some(data)
    /\ backoff' = 0
    /\ rpc' = "while"
    /\ Sent /\ all403' = FALSE /\ last' = "200"
    /\ UNCHANGED <<email, ret, notResolve>>

\* lines 362-368, 373: raise_for_status raises HTTPError with status 403
RequestRateLimited ==
    /\ rpc = "try"
    /\ backoff' = backoff + 1
    /\ rpc' = "while"
    /\ Sent /\ last' = "403"
    /\ UNCHANGED <<email, resp, ret, all403, notResolve>>

\* lines 362-364, 373: raise_for_status raises HTTPError with another status;
\* neither branch of the handler raises or continues, so the exception is
\* dropped and control reaches the loop condition again
RequestHttpError ==
    /\ rpc = "try"
    /\ \E status \in OtherErrorStatuses : last' = status
    /\ rpc' = "while"
    /\ Sent /\ all403' = FALSE
    /\ UNCHANGED <<email, resp, backoff, ret, notResolve>>

\* lines 362-363, 369-370, 373: requests.get raises a RequestException that
\* is no HTTPError, which the handler raises again
RequestConnError ==
    /\ rpc = "try"
    /\ rpc' = "raised"
    /\ Sent /\ all403' = FALSE /\ last' = "conn"
    /\ UNCHANGED <<email, resp, backoff, ret, notResolve>>

\* lines 375-385: the username of the first match, or None
AfterLoop ==
    /\ rpc = "after"
    /\ ret' = IF resp # None /\ resp[1].total_count >= 1
              THEN Some(resp[1].items[1])
              ELSE None
    /\ rpc' = "returned"
    /\ UNCHANGED <<email, resp, backoff, nreq, all403, last, notResolve>>

(***************************************************************************)
(* summary_repo                                                            *)
(*                                                                         *)
(* A line of `git log` is the record of its four tab-separated fields.  A  *)
(* header of `git submodule summary` is the sequence of its space-         *)
(* separated fields, each a sequence of tokens.  The text summary_repo     *)
(* returns is the sequence of its blocks: the "## name" heading of a       *)
(* repository and the titled sections under it; an entry of a section is   *)
(* the commit it was formatted from.                                       *)
(***************************************************************************)

\* lines 28-38
repo_order ==
    << "activitywatch", "aw-server", "aw-server-rust", "aw-webui", "aw-watcher-afk",
       "aw-watcher-window", "aw-qt", "aw-core", "aw-client" >>

\* the all-zero commit id of a submodule that was added or removed
ZeroId == "0000000"

\* line 122: wrap_details' default wraplines
wraplines == 5

Last(q) == q[Len(q)]

endswith(q, tok) == q # <<>> /\ Last(q) = tok

\* q.strip(tok), on tokens
RECURSIVE Strip(_, _)
Strip(q, tok) ==
    IF q # <<>> /\ Head(q) = tok THEN Strip(Tail(q), tok)
    ELSE IF q # <<>> /\ Last(q) = tok THEN Strip(SubSeq(q, 1, Len(q) - 1), tok)
    ELSE q

\* an insertion-ordered dict is the sequence of its items
DictKeys(d) == {d[k].key : k \in 1..Len(d)}
DictGet(d, key) == d[CHOOSE k \in 1..Len(d) : d[k].key = key].value
DictSet(d, key, value) ==
    IF key \in DictKeys(d)
    THEN [k \in 1..Len(d) |-> IF d[k].key = key THEN [key |-> key, value |-> value] ELSE d[k]]
    ELSE Append(d, [key |-> key, value |-> value])

\* the values of the items of d whose key is not in keys, in order
RECURSIVE ValuesExcept(_, _)
ValuesExcept(d, keys) ==
    IF d = <<>> THEN <<>>
    ELSE (IF Head(d).key \in keys THEN <<>> ELSE Head(d).value)
             \o ValuesExcept(Tail(d), keys)

\* line 144: basename of the directory summary_repo runs in
RootDir == "activitywatch"
Dirname(path) == IF Len(path) = 1 THEN RootDir ELSE Last(path)

Top == stack[Len(stack)]
SetTop(f) == [stack EXCEPT ![Len(stack)] = f]

Frame(path, commitrange) ==
    [ path |-> path, commitrange |-> commitrange, pcf |-> "entry",
      out |-> <<>>, feats |-> <<>>, fixes |-> <<>>, misc |-> <<>>,
      lines |-> <<>>, idx |-> 0, headers |-> <<>>, hidx |-> 0,
      name |-> "", subrepos |-> <<>> ]

Block(kind, name, entries, details) ==
    [kind |-> kind, name |-> name, count |-> Len(entries), details |-> details,
     entries |-> entries]

\* lines 162-168: the entry of a commit (its links are not modelled)
Entry(line) == [id |-> line.id, msg |-> line.msg]

\* lines 122-130 and 176-184: the section of a bucket, if it has entries
Section(name, entries) ==
    IF entries = <<>> THEN <<>>
    ELSE << Block("section", name, entries,
                  name \in {"Misc", "Fixes"} /\ Len(entries) > wraplines) >>

\* lines 213-224: the sub-repositories' texts, repo_order first
RECURSIVE InRepoOrder(_, _)
InRepoOrder(names, d) ==
    IF names = <<>> THEN <<>>
    ELSE (IF Head(names) \in DictKeys(d) THEN DictGet(d, Head(names)) ELSE <<>>)
             \o InRepoOrder(Tail(names), d)

Ordered(d) == InRepoOrder(repo_order, d) \o ValuesExcept(d, Range(repo_order))

\* the value v returned by the frame on top of the stack reaches its caller
Return(v) ==
    IF Len(stack) = 1
    THEN /\ stack' = <<>>
         /\ output_changelog' = v
         /\ bpc' = "summarized"
    ELSE LET caller == stack[Len(stack) - 1]
         IN  /\ stack' = [SubSeq(stack, 1, Len(stack) - 1) EXCEPT ![Len(stack) - 1] =
                    [caller EXCEPT !.subrepos = DictSet(caller.subrepos, caller.name, v),
                                   !.hidx = caller.hidx + 1]]
             /\ UNCHANGED <<output_changelog, bpc>>

\* lines 137-155: a removed submodule returns "", any other runs `git log`
SummaryBegin ==
    /\ bpc = "summary" /\ stack # <<>> /\ Top.pcf = "entry"
    /\ IF endswith(Top.commitrange, ZeroId)
       THEN Return(<<>>)
       ELSE /\ stack' = SetTop([Top EXCEPT
                    !.commitrange = IF startswith(Top.commitrange, ZeroId)
                                    THEN <<>> ELSE Top.commitrange,
                    !.out = <<Block("repo", Dirname(Top.path), <<>>, FALSE)>>,
                    !.lines = gitlog[Top.path],
                    !.idx = 1,
                    !.pcf = "lines"])
            /\ UNCHANGED <<output_changelog, bpc>>
    /\ UNCHANGED <<contributor_emails, notSummary>>

\* lines 104-111: a git command of summary_repo exits non-zero and run raises
GitFails ==
    /\ bpc = "summary" /\ stack # <<>> /\ Top.pcf \in {"entry", "sections"}
    /\ ~endswith(Top.commitrange, ZeroId)
    /\ bpc' = "aborted"
    /\ UNCHANGED <<stack, output_changelog, contributor_emails, notSummary>>

\* lines 156-174: one line of the log
SummaryLine ==
    /\ bpc = "summary" /\ stack # <<>> /\ Top.pcf = "lines"
    /\ Top.idx <= Len(Top.lines)
    /\ LET line == Top.lines[Top.idx]
           type == CommitType(line.msg)
       IN  /\ contributor_emails' = contributor_emails \cup {line.email}
           /\ stack' = SetTop([Top EXCEPT
                  !.idx = Top.idx + 1,
                  !.feats = IF type = Some("feat") THEN Append(@, Entry(line)) ELSE @,
                  !.fixes = IF type = Some("fix") THEN Append(@, Entry(line)) ELSE @,
                  !.misc = IF /\ type \notin {Some("feat"), Some("fix")}
                              /\ type \notin {Some(f) : f \in filter_types}
                           THEN Append(@, Entry(line)) ELSE @])
    /\ UNCHANGED <<output_changelog, bpc, notSummary>>

\* lines 176-184: the sections are appended to out
SummarySections ==
    /\ bpc = "summary" /\ stack # <<>> /\ Top.pcf = "lines"
    /\ Top.idx > Len(Top.lines)
    /\ stack' = SetTop([Top EXCEPT
           !.out = ((@ \o Section("Features", Top.feats)) \o Section("Fixes", Top.fixes))
                       \o Section("Misc", Top.misc),
           !.pcf = "sections"])
    /\ UNCHANGED <<output_changelog, contributor_emails, bpc, notSummary>>

\* lines 189-193: `git submodule summary` is run and split into headers
SummarySubmodules ==
    /\ bpc = "summary" /\ stack # <<>> /\ Top.pcf = "sections"
    /\ stack' = SetTop([Top EXCEPT
           !.headers = submodules[Top.path], !.hidx = 1, !.pcf = "subs"])
    /\ UNCHANGED <<output_changelog, contributor_emails, bpc, notSummary>>

\* lines 194-200: the headers the loop passes over
Skipped(header) ==
    \/ Len(header) >= 5 /\ SubSeq(header, 1, 5) =
           << <<"fatal:">>, <<"not">>, <<"a">>, <<"git">>, <<"repository">> >>
    \/ header = <<>>
    \/ Len(header) < 4

\* lines 193-200: a header that names no submodule to descend into
SummarySkip ==
    /\ bpc = "summary" /\ stack # <<>> /\ Top.pcf = "subs"
    /\ Top.hidx <= Len(Top.headers)
    /\ Skipped(Top.headers[Top.hidx])
    /\ stack' = SetTop([Top EXCEPT !.hidx = Top.hidx + 1])
    /\ UNCHANGED <<output_changelog, contributor_emails, bpc, notSummary>>

\* lines 202-211: the recursive call for a submodule
SummaryDescend ==
    /\ bpc = "summary" /\ stack # <<>> /\ Top.pcf = "subs"
    /\ Top.hidx <= Len(Top.headers)
    /\ ~Skipped(Top.headers[Top.hidx])
    /\ Len(Top.headers[Top.hidx]) = 4
    /\ LET header == Top.headers[Top.hidx]
           name == Join(Strip(Strip(header[2], "."), "/"))
       IN  stack' = Append(SetTop([Top EXCEPT !.name = name]),
                           Frame(Append(Top.path, name), header[3]))
    /\ UNCHANGED <<output_changelog, contributor_emails, bpc, notSummary>>

\* line 202: a header of more than four fields cannot be unpacked
SummaryBadHeader ==
    /\ bpc = "summary" /\ stack # <<>> /\ Top.pcf = "subs"
    /\ Top.hidx <= Len(Top.headers)
    /\ ~Skipped(Top.headers[Top.hidx])
    /\ Len(Top.headers[Top.hidx]) > 4
    /\ bpc' = "aborted"
    /\ UNCHANGED <<stack, output_changelog, contributor_emails, notSummary>>

\* lines 213-226: the sub-repositories' texts are appended and out returned
SummaryReturn ==
    /\ bpc = "summary" /\ stack # <<>> /\ Top.pcf = "subs"
    /\ Top.hidx > Len(Top.headers)
    /\ Return(Top.out \o Ordered(Top.subrepos))
    /\ UNCHANGED <<contributor_emails, notSummary>>

(***************************************************************************)
(* get_all_contributors                                                    *)
(*                                                                         *)
(* The dict usernames is insertion-ordered: the sequence of its items,     *)
(* each a username and its set of emails.  A line of the cache file is the *)
(* record of what line.split("\t") unpacks to: the username and the list   *)
(* of the emails after it.                                                 *)
(***************************************************************************)

Addr(local, domain) == <<local, "@", domain>>

\* "": what an empty field of a line reads as
EmptyEmail == <<>>

\* lines 399-403
Hardcoded ==
    << [key |-> "erikbjare", value |-> {Addr("erik.bjareholt", "gmail.com"),
                                        Addr("erik", "bjareho.lt")}],
       [key |-> "iloveitaly", value |-> {Addr("iloveitaly", "gmail.com")}],
       [key |-> "kewde", value |-> {Addr("kewde", "particl.io")}],
       [key |-> "victorwinberg", value |-> {Addr("victor.m.winberg", "gmail.com")}],
       [key |-> "NicoWeio", value |-> {Addr("nico.weio", "gmail.com")}] >>

\* usernames[u].add(e), usernames being a defaultdict(set)
AddEmail(d, u, e) ==
    DictSet(d, u, (IF u \in DictKeys(d) THEN DictGet(d, u) ELSE {}) \cup {e})

\* lines 413-414
RECURSIVE AddEmails(_, _, _)
AddEmails(d, u, emails) ==
    IF emails = <<>> THEN d ELSE AddEmails(AddEmail(d, u, Head(emails)), u, Tail(emails))

\* lines 409-414: the loop over the lines of the file
RECURSIVE ParseCache(_, _)
ParseCache(d, lines) ==
    IF lines = <<>> THEN d
    ELSE LET line == Head(lines)
         IN  ParseCache(IF line.username = "" /\ line.emails = <<>>
                        THEN d
                        ELSE AddEmails(d, line.username, line.emails),
                        Tail(lines))

\* the cache file left unread
ReadCache_Ignored(d, file) == d

\* lines 406-414: the cache file, if there is one, is merged into usernames
ReadCache(d, file) == IF file = None THEN d ELSE ParseCache(d, file[1])

\* lines 417-419
ResolvedEmails(d) == UNION {d[k].value : k \in 1..Len(d)}

\* every collected email looked up again, resolved or not
UnresolvedEmails_All(d, emails) == emails

\* line 420
UnresolvedEmails(d, emails) == emails \ ResolvedEmails(d)

\* Python's order of the usernames the model holds
NameOrder ==
    <<"", "NicoWeio", "alice", "bob", "erikbjare", "iloveitaly", "kewde",
      "victorwinberg", "zed">>

\* Python's order, as strings, of the emails the model holds
EmailOrder ==
    << EmptyEmail,
       <<"12345", "+", "alice", "@", NoReplyDomain>>,
       Addr("bob", NoReplyDomain),
       Addr("carol", "example.org"),
       Addr("dave", "example.org"),
       Addr("erik.bjareholt", "gmail.com"),
       Addr("erik", "bjareho.lt"),
       Addr("iloveitaly", "gmail.com"),
       Addr("kewde", "particl.io"),
       Addr("nico.weio", "gmail.com"),
       Addr("old", "example.org"),
       Addr("victor.m.winberg", "gmail.com") >>

\* sorted(S), for a set S of strings the table `order` lists
Sorted(order, S) ==
    IF S \subseteq Range(order)
    THEN SelectSeq(order, LAMBDA x : x \in S)
    ELSE CHOOSE q \in {} : TRUE

\* lines 427-430: a line per username in sorted order, its emails sorted;
\* "\t".join of no email writes one empty field
WriteCache(d) ==
    LET names == Sorted(NameOrder, DictKeys(d))
    IN  [k \in 1..Len(names) |->
            LET emails == Sorted(EmailOrder, DictGet(d, names[k]))
            IN  [username |-> names[k],
                 emails |-> IF emails = <<>> THEN <<EmptyEmail>> ELSE emails]]

\* lines 434-436: the last username of the dict that holds the email
EmailToUsername(d, e) == d[SetMax({k \in 1..Len(d) : e \in d[k].value})].key

\* lines 438-442
ReturnedUsernames(d, emails) ==
    {EmailToUsername(d, e) : e \in emails \cap ResolvedEmails(d)}

ContribIdle ==
    /\ usernames = <<>> /\ gpc = "idle" /\ unresolved = {} /\ contributors = {}

\* get_all_contributors called while summary_repo is still collecting
BuildCallContributors_Early ==
    /\ bpc \in {"summary", "summarized"}
    /\ bpc' = "contributors"
    /\ gpc' = "read"
    /\ UNCHANGED <<cachefile, usernames, unresolved, contributors, nruns>>
    /\ UNCHANGED <<parseVars, dedupVars, resolveVars, inputVars, summaryVars>>

\* lines 285-298: build goes on from summary_repo to get_all_contributors
BuildCallContributors ==
    /\ bpc = "summarized"
    /\ bpc' = "contributors"
    /\ gpc' = "read"
    /\ UNCHANGED <<cachefile, usernames, unresolved, contributors, nruns>>
    /\ UNCHANGED <<parseVars, dedupVars, resolveVars, inputVars, summaryVars>>

\* lines 396-420
ContribRead ==
    /\ bpc = "contributors" /\ gpc = "read"
    /\ usernames' = ReadCache(Hardcoded, cachefile)
    /\ unresolved' = UnresolvedEmails(usernames', contributor_emails)
    /\ gpc' = "loop"
    /\ UNCHANGED <<cachefile, contributors, nruns>>
    /\ UNCHANGED <<parseVars, dedupVars, resolveVars, inputVars, bpc, summaryVars>>

\* lines 421-422: the loop calls _resolve_email for an email of the set
ContribCall ==
    /\ bpc = "contributors" /\ gpc = "loop"
    /\ \E e \in unresolved :
           /\ email' = e
           /\ unresolved' = unresolved \ {e}
    /\ rpc' = "entry" /\ resp' = None /\ backoff' = 0 /\ ret' = None
    /\ nreq' = 0 /\ all403' = TRUE /\ last' = ""
    /\ gpc' = "call"
    /\ UNCHANGED <<cachefile, usernames, contributors, nruns>>
    /\ UNCHANGED <<parseVars, dedupVars, inputVars, bpc, summaryVars>>

\* lines 422-424: the call returned; a username that is not empty is recorded
ContribResolved ==
    /\ bpc = "contributors" /\ gpc = "call" /\ rpc = "returned"
    /\ usernames' = IF ret # None /\ ret[1] # ""
                    THEN AddEmail(usernames, ret[1], email)
                    ELSE usernames
    /\ gpc' = "loop"
    /\ email' = <<>> /\ rpc' = "idle" /\ resp' = None /\ backoff' = 0 /\ ret' = None
    /\ nreq' = 0 /\ all403' = TRUE /\ last' = ""
    /\ UNCHANGED <<cachefile, unresolved, contributors, nruns>>
    /\ UNCHANGED <<parseVars, dedupVars, inputVars, bpc, summaryVars>>

\* line 422: the call raised, and nothing up to the top level catches it
ContribRaised ==
    /\ bpc = "contributors" /\ gpc = "call" /\ rpc = "raised"
    /\ bpc' = "aborted"
    /\ UNCHANGED <<parseVars, dedupVars, resolveVars, inputVars, summaryVars, contribVars>>

\* lines 426-442: the cache file is rewritten and the usernames returned
ContribWrite ==
    /\ bpc = "contributors" /\ gpc = "loop"
    /\ unresolved = {}
    /\ cachefile' = Some(WriteCache(usernames))
    /\ contributors' = ReturnedUsernames(usernames, contributor_emails)
    /\ gpc' = "returned"
    /\ UNCHANGED <<usernames, unresolved, nruns>>
    /\ UNCHANGED <<parseVars, dedupVars, resolveVars, inputVars, bpc, summaryVars>>

\* lines 298-334: the rest of build, which writes the release notes (their
\* text is not modelled)
BuildWrite ==
    /\ bpc = "contributors" /\ gpc = "returned"
    /\ bpc' = "written"
    /\ UNCHANGED <<parseVars, dedupVars, resolveVars, inputVars, summaryVars, contribVars>>

(***************************************************************************)
(* The inputs                                                              *)
(***************************************************************************)

Root == <<".">>

Paths ==
    { Root, <<".", "aw-server">>, <<".", "aw-server", "aw-webui">>,
      <<".", "aw-webui">>, <<".", "aw-old">>, <<".", "my">> }

\* a header "* name old...new (n):" of `git submodule summary`
Header(name, old, new) == << <<"*">>, name, <<old, "...", new>>, <<"(", "1", ")", ":">> >>

\* a bundle with a submodule that has one of its own, a submodule that was
\* removed, one that was added, and headers that name none
Tree ==
    [p \in Paths |->
        IF p = Root
        THEN << Header(<<"aw-server">>, "1a2b3c4", "5d6e7f8"),
                << <<"fatal:">>, <<"not">>, <<"a">>, <<"git">>, <<"repository">>, <<"x">> >>,
                << <<"*">>, <<"aw-qt">>, <<"1a2b3c4">> >>,
                <<>>,
                Header(<<"aw-old">>, "1a2b3c4", ZeroId),
                Header(<<".", "/", "aw-webui">>, ZeroId, "5d6e7f8") >>
        ELSE IF p = <<".", "aw-server">>
        THEN << Header(<<"aw-webui">>, "1a2b3c4", "5d6e7f8") >>
        ELSE <<>>]

\* a bundle with a submodule whose path holds a space
SpacedTree ==
    [p \in Paths |->
        IF p = Root
        THEN << << <<"*">>, <<"my">>, <<"module">>, <<"1a2b3c4", "...", "5d6e7f8">>,
                   <<"(", "1", ")", ":">> >> >>
        ELSE <<>>]

\* the lines of a log: commit k of it has the id k
Log(commits) ==
    [k \in 1..Len(commits) |->
        [id |-> k, author |-> "someone", email |-> commits[k].email, msg |-> commits[k].msg]]

Commit(e, m) == [email |-> e, msg |-> m]

Plain == Addr("carol", "example.org")
NoReply == <<"12345", "+", "alice", "@", NoReplyDomain>>
Known == Addr("erik", "bjareho.lt")

Feat == <<"feat", ":", " ", "add X">>
Fix == <<"fix", ":", " ", "bug Y">>
Chore == <<"chore", ":", " ", "cleanup">>
Build == <<"build", "(", "deps", ")", "!", ":", " ", "bump">>
Text == <<"Merge", " ", "branch">>

\* the default of build's filter_types (line 264)
DefaultFilter == {"build", "ci", "tests", "test"}

NoLog == [p \in Paths |-> <<>>]

\* the repositories a run of build meets: each path's log is empty or has
\* a commit or two; the authors differ from path to path
BuildLogs ==
    { [p \in Paths |->
          IF p = Root THEN root
          ELSE IF p = <<".", "aw-server">> THEN server
          ELSE IF p = <<".", "aw-server", "aw-webui">> THEN nested
          ELSE IF p = <<".", "aw-webui">> THEN webui
          ELSE <<>>] :
        root \in {<<>>, Log(<<Commit(Plain, Feat)>>), Log(<<Commit(NoReply, Feat)>>),
                  Log(<<Commit(Known, Feat)>>),
                  Log(<<Commit(Plain, Feat), Commit(NoReply, Chore)>>)},
        server \in {<<>>, Log(<<Commit(Plain, Fix)>>),
                    Log(<<Commit(Addr("dave", "example.org"), Chore)>>)},
        nested \in {<<>>, Log(<<Commit(NoReply, Feat)>>)},
        webui \in {<<>>, Log(<<Commit(Known, Text)>>)} }

BuildInputs ==
    {<<g, Tree>> : g \in BuildLogs}
        \cup {<<[NoLog EXCEPT ![Root] = Log(<<Commit(Plain, Feat)>>)], SpacedTree>>}

\* the cache file a first run finds: none, an empty one, one with an entry
\* (of two emails, one of them empty, not in sorted order), one that gives an email of the hardcoded table to somebody else, and one
\* with a blank line that lists an email under two usernames
InitialCaches ==
    { None,
      Some(<<>>),
      Some(<< [username |-> "zed", emails |-> <<Addr("old", "example.org"), EmptyEmail>>] >>),
      Some(<< [username |-> "bob", emails |-> <<Known>>] >>),
      Some(<< [username |-> "bob", emails |-> <<Plain>>],
              [username |-> "", emails |-> <<>>],
              [username |-> "alice", emails |-> <<Plain, Addr("dave", "example.org")>>] >>) }

MaxRuns == 2

\* a process starts: build calls summary_repo on "."
StartOfRun ==
    /\ bpc = "summary"
    /\ stack = <<Frame(Root, <<"v0.12.0", "...", "master">>)>>
    /\ output_changelog = <<>>
    /\ contributor_emails = {}
    /\ ContribIdle
    /\ ResolveIdle

\* the script is run again, on what the repositories then hold
NewRun ==
    /\ bpc \in {"written", "aborted"}
    /\ nruns < MaxRuns
    /\ nruns' = nruns + 1
    /\ \E in \in BuildInputs : gitlog' = in[1] /\ submodules' = in[2]
    /\ bpc' = "summary"
    /\ stack' = <<Frame(Root, <<"v0.12.0", "...", "master">>)>>
    /\ output_changelog' = <<>>
    /\ contributor_emails' = {}
    /\ usernames' = <<>> /\ gpc' = "idle" /\ unresolved' = {} /\ contributors' = {}
    /\ email' = <<>> /\ rpc' = "idle" /\ resp' = None /\ backoff' = 0 /\ ret' = None
    /\ nreq' = 0 /\ all403' = TRUE /\ last' = ""
    /\ UNCHANGED <<parseVars, dedupVars, filter_types, cachefile>>

(***************************************************************************)
(* Specifications                                                          *)
(***************************************************************************)

BuildIdle ==
    /\ gitlog = NoLog /\ submodules = [p \in Paths |-> <<>>] /\ filter_types = {}
    /\ bpc = "idle" /\ stack = <<>> /\ output_changelog = <<>>
    /\ contributor_emails = {}
    /\ cachefile = None /\ ContribIdle /\ nruns = 0

Init ==
    /\ ParseIdle
    /\ DedupIdle
    /\ \E in \in BuildInputs : gitlog = in[1] /\ submodules = in[2]
    /\ filter_types = DefaultFilter
    /\ cachefile \in InitialCaches
    /\ nruns = 1
    /\ StartOfRun

Next ==
    \/ SummaryBegin
    \/ GitFails
    \/ SummaryLine
    \/ SummarySections
    \/ SummarySubmodules
    \/ SummarySkip
    \/ SummaryDescend
    \/ SummaryBadHeader
    \/ SummaryReturn
    \/ BuildCallContributors
    \/ ContribRead
    \/ ContribCall
    \/ ResolveEntry
    \/ WhileTest
    \/ RequestOk
    \/ RequestRateLimited
    \/ RequestHttpError
    \/ RequestConnError
    \/ AfterLoop
    \/ ContribResolved
    \/ ContribRaised
    \/ ContribWrite
    \/ BuildWrite
    \/ NewRun

\* runs of build, one after the other, on the cache file the last one left
Spec == Init /\ [][Next]_vars

InitParse ==
    /\ msg \in SeqsUpTo(ParseTokens, MaxMsgLen)
    /\ parsed = None
    /\ DedupIdle
    /\ ResolveIdle
    /\ BuildIdle

NextParse == Classify

\* parse_type applied to every message of at most MaxMsgLen tokens
SpecParse == InitParse /\ [][NextParse]_vars

InitDedup ==
    /\ ParseIdle
    /\ s \in SeqsUpTo(DedupLines, MaxLines)
    /\ minlen \in 0..MaxMinlen
    /\ only_sections \in BOOLEAN
    /\ dpc = "entry"
    /\ i = 0 /\ out = <<>> /\ longest = <<>> /\ removals = <<>>
    /\ ResolveIdle
    /\ BuildIdle

NextDedup == DedupEntry \/ DedupStep \/ DedupReturn

\* remove_duplicates applied to every list of at most MaxLines lines
SpecDedup == InitDedup /\ [][NextDedup]_vars

\* the emails _resolve_email is called with
ResolveEmails ==
    {Plain, Addr("dave", "example.org"), NoReply, Addr("bob", NoReplyDomain)}

InitResolve ==
    /\ ParseIdle
    /\ DedupIdle
    /\ BuildIdle
    /\ email \in ResolveEmails
    /\ rpc = "entry" /\ resp = None /\ backoff = 0 /\ ret = None
    /\ nreq = 0 /\ all403 = TRUE /\ last = ""

NextResolve ==
    \/ ResolveEntry
    \/ WhileTest
    \/ RequestOk
    \/ RequestRateLimited
    \/ RequestHttpError
    \/ RequestConnError
    \/ AfterLoop

\* one call of _resolve_email, against every behaviour of the remote
SpecResolve == InitResolve /\ [][NextResolve]_vars

\* the interpreter keeps running the call: a step that can be taken is taken
FairSpecResolve == SpecResolve /\ WF_vars(NextResolve)

MaxCommits == 3

\* the messages of the commits summary_repo buckets
SummaryMessages == {Feat, Fix, Chore, Build, Text}

\* the logs of the root, of at most MaxCommits commits, over a bundle whose
\* submodules have a commit at most
SummaryLogs ==
    { [p \in Paths |->
          IF p = Root THEN Log(root)
          ELSE IF p = <<".", "aw-server">> THEN server
          ELSE IF p = <<".", "aw-webui">> THEN webui
          ELSE <<>>] :
        root \in SeqsUpTo({Commit(Plain, m) : m \in SummaryMessages}, MaxCommits),
        server \in {<<>>, Log(<<Commit(Plain, Chore)>>)},
        webui \in {<<>>, Log(<<Commit(Plain, Fix)>>)} }

InitSummary ==
    /\ ParseIdle
    /\ DedupIdle
    /\ \/ gitlog \in SummaryLogs /\ submodules = Tree
       \/ gitlog = NoLog /\ submodules = SpacedTree
    /\ filter_types \in {DefaultFilter, {"chore"}, {}}
    /\ cachefile = None
    /\ nruns = 1
    /\ StartOfRun

NextSummary ==
    \/ SummaryBegin
    \/ GitFails
    \/ SummaryLine
    \/ SummarySections
    \/ SummarySubmodules
    \/ SummarySkip
    \/ SummaryDescend
    \/ SummaryBadHeader
    \/ SummaryReturn

\* summary_repo(".", ...) on every such bundle and filter
SpecSummary == InitSummary /\ [][NextSummary]_vars

(***************************************************************************)
(* Claims about parse_type                                                 *)
(***************************************************************************)

\* what C10 says parse_type returns: the scope ends at the first ")" after
\* the first "("
ClaimedParse(m) ==
    LET n == WordRun(m)
        p == n + 1
        closes == {j \in (p + 1)..Len(m) : m[j] = ")"}
        type == Join(SubSeq(m, 1, n))
    IN  IF n = 0 \/ type \notin AllowedTypes THEN None
        ELSE IF p <= Len(m) /\ m[p] = "("
        THEN IF /\ closes # {}
                /\ SetMin(closes) > p + 1
                /\ BangColonAt(m, SetMin(closes) + 1)
             THEN Some([type |-> type,
                        subtype |-> Some(SubSeq(m, p + 1, SetMin(closes) - 1))])
             ELSE None
        ELSE IF BangColonAt(m, p)
        THEN Some([type |-> type, subtype |-> None])
        ELSE None

\* C10: parse_type returns (type, scope) with scope the text between the
\* first "(" and the first following ")" for a message type(scope): subject
\* with an allowed type (the scope and a "!" being optional), and None for
\* every other message.
C10_ParseTypeFirstParen ==
    parsed # None => parsed[1] = ClaimedParse(msg)

(***************************************************************************)
(* Claims about remove_duplicates                                          *)
(***************************************************************************)

\* a is a subsequence of b
RECURSIVE IsSubseq(_, _)
IsSubseq(a, b) ==
    IF a = <<>> THEN TRUE
    ELSE IF b = <<>> THEN FALSE
    ELSE IF Head(a) = Head(b) THEN IsSubseq(Tail(a), Tail(b))
    ELSE IsSubseq(a, Tail(b))

RECURSIVE TotalLen(_)
TotalLen(runs) == IF runs = <<>> THEN 0 ELSE Len(Head(runs)) + TotalLen(Tail(runs))

\* C5: the list remove_duplicates returns is a subsequence of its input:
\* the lines kept are in the order they had in the input.
C5_OutputIsSubsequence ==
    dpc = "done" => IsSubseq(out, s)

\* the lines dropped in runs of at least minlen repeated lines: the runs
\* reported as removed, and the run still collected when the input ends
ElidedInLongRuns ==
    TotalLen(SelectSeq(removals, LAMBDA run : Len(run) >= minlen))
        + (IF Len(longest) >= minlen THEN Len(longest) ELSE 0)

\* C6: every line of the input missing from the returned list belongs to a
\* run of at least minlen collected repeated lines (a shorter run, also one
\* at the very end of the input, is kept), and an input shorter than minlen
\* is returned unchanged.
C6_ElidesOnlyLongRuns ==
    dpc = "done" =>
        /\ Len(s) - Len(out) = ElidedInLongRuns
        /\ Len(s) < minlen => out = s

(***************************************************************************)
(* Claims about _resolve_email                                             *)
(***************************************************************************)

IsNoReply == NoReplyDomain \in Range(email)

\* C2: a lookup failure that is no HTTP 403 (no response, or another HTTP
\* error status) leaves _resolve_email as an exception: it is neither
\* swallowed nor retried.
C2_OtherFailureRaises ==
    last \in OtherErrorStatuses \cup {"conn"} => rpc = "raised"

\* C3: every call of _resolve_email ends, by returning or by raising,
\* whatever the remote answers.
C3_ResolveTerminates ==
    <>(rpc \in {"returned", "raised"})

\* C4: while every request of a call for a non-no-reply email is answered
\* with 403, the attempt counter equals the number of 403 responses, a
\* request is sent only after fewer than max_backoff of them, at most
\* max_backoff requests are sent, and the call returns None and does not
\* raise.
C4_RateLimitGivesUp ==
    (rpc # "idle" /\ ~IsNoReply /\ all403) =>
        /\ rpc # "entry" => backoff = nreq
        /\ nreq <= max_backoff
        /\ rpc = "try" => nreq < max_backoff
        /\ rpc # "raised"
        /\ rpc = "after" => nreq = max_backoff
        /\ rpc = "returned" => ret = None /\ nreq = max_backoff

\* a call that was answered 403 each time has given up and returned None
C4_Witness ==
    /\ ~IsNoReply /\ all403 /\ last = "403"
    /\ rpc = "returned" /\ ret = None /\ nreq = max_backoff

(***************************************************************************)
(* Claims about summary_repo                                               *)
(***************************************************************************)

\* the entries a frame's text lists in the section called name
Listed(f, name) ==
    UNION {Range(f.out[k].entries) :
               k \in {j \in 1..Len(f.out) : f.out[j].kind = "section" /\ f.out[j].name = name}}

ListedOnlyIn(f, e, name) ==
    \A n \in {"Features", "Fixes", "Misc"} : (e \in Listed(f, n)) <=> (n = name)

\* the leading type token of a message, allowed or not
LeadingType(m) == IF RegexMatch(m) = None THEN None ELSE Some(RegexMatch(m)[1].type)

StartsWith(m, type) == Len(m) >= 2 /\ m[1] = type /\ m[2] = ":"

\* C1: in the text of every repository, a commit whose message starts with
\* "feat:" is listed under Features only, one that starts with "fix:" under
\* Fixes only, and one whose leading type token is in filter_types in no
\* section at all.
C1_BucketsFollowTypeAndFilter ==
    \A k \in 1..Len(stack) :
        LET f == stack[k]
        IN  f.pcf \in {"sections", "subs"} =>
                \A j \in 1..Len(f.lines) :
                    LET m == f.lines[j].msg
                        e == Entry(f.lines[j])
                    IN  /\ StartsWith(m, "feat") => ListedOnlyIn(f, e, "Features")
                        /\ StartsWith(m, "fix") => ListedOnlyIn(f, e, "Fixes")
                        /\ LeadingType(m) \in {Some(t) : t \in filter_types} =>
                               \A n \in {"Features", "Fixes", "Misc"} : e \notin Listed(f, n)

(***************************************************************************)
(* Claims about build and get_all_contributors                             *)
(***************************************************************************)

\* a request of _resolve_email is being sent, or one was sent in this run
RequestSent == rpc = "try" \/ nreq > 0

\* C7: when a request of contributor resolution is sent, summary_repo has
\* returned for the root and so for every sub-repository, and from the
\* moment get_all_contributors starts to the end of the run
\* contributor_emails does not change.
C7_CollectionBeforeResolution ==
    /\ [](RequestSent => stack = <<>> /\ bpc \in {"contributors", "written", "aborted"})
    /\ [][(gpc # "idle" /\ gpc' # "idle") => contributor_emails' = contributor_emails]_vars

\* a request is being sent for an email of a run that collected emails in
\* the root and in a sub-repository
C7_Witness ==
    /\ rpc = "try" /\ stack = <<>>
    /\ gitlog[Root] # <<>> /\ gitlog[<<".", "aw-server">>] # <<>>
    /\ {gitlog[Root][1].email, gitlog[<<".", "aw-server">>][1].email} \subseteq contributor_emails
    /\ email \in contributor_emails

\* no email is under two usernames in the lines of a cache file
UniqueEmails(lines) ==
    \A j, k \in 1..Len(lines) :
        lines[j].username # lines[k].username =>
            Range(lines[j].emails) \cap Range(lines[k].emails) = {}

\* no email is under two usernames of a table
UniqueInTable(d) ==
    \A j, k \in 1..Len(d) : j # k => d[j].value \cap d[k].value = {}

\* get_all_contributors has just rewritten the cache file
Rewritten == gpc = "returned"

\* C8 as claimed: every email of the cache file a run has written belongs to
\* one username, whatever the cache file held before.
C8_EveryWrittenCacheUnique ==
    Rewritten => UniqueEmails(cachefile[1])

\* C8, amended: a run that finds no cache file, or one in which, taken
\* together with the hardcoded entries, every email belongs to one username,
\* writes a cache file in which every email belongs to one username.
C8_UniqueCacheStaysUnique ==
    [][(~Rewritten /\ Rewritten' /\ UniqueInTable(ReadCache(Hardcoded, cachefile)))
           => UniqueEmails(cachefile'[1])]_vars

\* a second run has added a looked-up email to the cache file the first one
\* wrote, and no email of the file is under two usernames
C8_Witness ==
    /\ Rewritten /\ nruns = 2
    /\ UniqueEmails(cachefile[1])
    /\ \E k \in 1..Len(cachefile[1]) :
           /\ cachefile[1][k].username \in {"alice", "bob"}
           /\ Plain \in Range(cachefile[1][k].emails)
           /\ NoReply \in Range(cachefile[1][k].emails)

\* the (username, email) pairs of a cache file
Pairs(file) ==
    IF file = None THEN {}
    ELSE UNION {{<<file[1][k].username, file[1][k].emails[j]>> :
                    j \in 1..Len(file[1][k].emails)} : k \in 1..Len(file[1])}

\* C9: every (username, email) pair of the cache file a run found is in the
\* cache file the run writes.
C9_CacheGrowsMonotonically ==
    [][(~Rewritten /\ Rewritten') => Pairs(cachefile) \subseteq Pairs(cachefile')]_vars

\* a run has rewritten a cache file that held an entry of its own: the entry
\* is there, beside the hardcoded ones and one the run resolved
C9_Witness ==
    /\ Rewritten
    /\ <<"zed", Addr("old", "example.org")>> \in Pairs(cachefile)
    /\ <<"kewde", Addr("kewde", "particl.io")>> \in Pairs(cachefile)
    /\ <<"alice", NoReply>> \in Pairs(cachefile)

====
